---------------------------- MODULE Spec2Model ----------------------------
(***************************************************************************)
(* Model of the two EV3 example programs                                   *)
(*   official_models/ev3/home/ev3rstorm/main.py   (Ev3rstorm)              *)
(*   official_models/ev3/home/gripp3r/main.py     (Gripp3r)                *)
(* Both drive a DriveBase from the buttons of the infrared beacon; the     *)
(* Ev3rstorm also blasts its bazooka when its touch sensor is pressed.     *)
(***************************************************************************)
EXTENDS Integers, Sequences, FiniteSets, TLC

VARIABLES
    self,     \* per robot: the fields of the robot object and of its devices
    args,     \* per robot: the (speed, turn_rate) its caller passes
    call,     \* per robot: the most recent drive_by_ir_beacon call
    blast,    \* per robot: the most recent blast_bazooka_if_touched call
    pc,       \* position of the program script (__main__ and main())
    screen,   \* images loaded on the brick's screen, in order
    log       \* the latest steps of the program, oldest first

vars == <<self, args, call, blast, pc, screen, log>>

---------------------------------------------------------------------------
(* Bounds of the model *)

MaxArg == 1          \* extra small speeds / turn rates 0..MaxArg
MaxChannel == 2      \* beacon channels 1..MaxChannel
MaxBlasts == 1       \* the bazooka motor angle stays within MaxBlasts blasts of 0
MaxLog == 4          \* number of latest program steps kept in log

(* Constants of the programs *)

DEFAULT_SPEED == 100
DEFAULT_TURN_RATE == 90
GRIPP3R_SPEED == 300
DEFAULT_IR_BEACON_CHANNEL == 1
AMBIENT_THRESHOLD == 15
WHEEL_DIAMETER == 26
AXLE_TRACK == 102
MEDIUM_MOTOR_N_ROTATIONS_PER_BLAST == 3
DEGREES_PER_ROTATION == 360
MEDIUM_MOTOR_ROTATIONAL_DEGREES_PER_BLAST ==
    MEDIUM_MOTOR_N_ROTATIONS_PER_BLAST * DEGREES_PER_ROTATION

---------------------------------------------------------------------------
(* Values *)

Robots == {"a", "b"}

\* the buttons the infrared sensor can report for a beacon
DriveButtons == {"LEFT_UP", "LEFT_DOWN", "RIGHT_UP", "RIGHT_DOWN"}
Button == DriveButtons \cup {"BEACON"}

Channels == 1..MaxChannel
Speeds == {DEFAULT_SPEED, GRIPP3R_SPEED} \cup (0..MaxArg)
TurnRates == {DEFAULT_TURN_RATE} \cup (0..MaxArg)

Range(s) == {s[i] : i \in DOMAIN s}

\* the lists of distinct buttons of B: what ir_sensor.buttons() may return
RECURSIVE ButtonLists(_)
ButtonLists(B) ==
    {<<>>} \cup UNION {{<<b>> \o l : l \in ButtonLists(B \ {b})} : b \in B}

\* every list the sensor may return
AllLists == ButtonLists(Button)

\* the lists of at most two drive buttons
ShortLists == {l \in ButtonLists(DriveButtons) : Len(l) <= 2}

\* commands of the DriveBase
drive(speed, turn_rate) == [op |-> "drive", speed |-> speed, turn_rate |-> turn_rate]
stop == [op |-> "stop", speed |-> 0, turn_rate |-> 0]
NoCommand == [op |-> "none", speed |-> 0, turn_rate |-> 0]

\* the DriveBase keeps running the latest command it was sent
DriveBase_after(driver, cmds) ==
    IF cmds = <<>> THEN driver ELSE [driver EXCEPT !.command = cmds[Len(cmds)]]

\* set(list) of Python
set(l) == Range(l)

---------------------------------------------------------------------------
(* drive_by_ir_beacon of the two classes *)

\* variants of the chain of comparisons, each one slip away from the source

\* the last branch turns the other way
commands_turn_flipped(ir_beacon_button_pressed, speed, turn_rate) ==
    IF ir_beacon_button_pressed = {"LEFT_UP", "RIGHT_UP"}
      THEN <<drive(speed, 0)>>
    ELSE IF ir_beacon_button_pressed = {"LEFT_DOWN", "RIGHT_DOWN"}
      THEN <<drive(-speed, 0)>>
    ELSE IF ir_beacon_button_pressed = {"LEFT_UP", "RIGHT_DOWN"}
      THEN <<drive(0, -turn_rate)>>
    ELSE IF ir_beacon_button_pressed = {"RIGHT_UP", "LEFT_DOWN"}
      THEN <<drive(0, turn_rate)>>
    ELSE IF ir_beacon_button_pressed = {"LEFT_UP"}
      THEN <<drive(speed, -turn_rate)>>
    ELSE IF ir_beacon_button_pressed = {"RIGHT_UP"}
      THEN <<drive(speed, turn_rate)>>
    ELSE IF ir_beacon_button_pressed = {"LEFT_DOWN"}
      THEN <<drive(-speed, turn_rate)>>
    ELSE IF ir_beacon_button_pressed = {"RIGHT_DOWN"}
      THEN <<drive(-speed, turn_rate)>>
    ELSE <<stop>>

\* the branches test that their buttons are among those pressed (>=)
\* instead of being exactly those pressed (==)
commands_superset(ir_beacon_button_pressed, speed, turn_rate) ==
    IF {"LEFT_UP", "RIGHT_UP"} \subseteq ir_beacon_button_pressed
      THEN <<drive(speed, 0)>>
    ELSE IF {"LEFT_DOWN", "RIGHT_DOWN"} \subseteq ir_beacon_button_pressed
      THEN <<drive(-speed, 0)>>
    ELSE IF {"LEFT_UP", "RIGHT_DOWN"} \subseteq ir_beacon_button_pressed
      THEN <<drive(0, -turn_rate)>>
    ELSE IF {"RIGHT_UP", "LEFT_DOWN"} \subseteq ir_beacon_button_pressed
      THEN <<drive(0, turn_rate)>>
    ELSE IF {"LEFT_UP"} \subseteq ir_beacon_button_pressed
      THEN <<drive(speed, -turn_rate)>>
    ELSE IF {"RIGHT_UP"} \subseteq ir_beacon_button_pressed
      THEN <<drive(speed, turn_rate)>>
    ELSE IF {"LEFT_DOWN"} \subseteq ir_beacon_button_pressed
      THEN <<drive(-speed, turn_rate)>>
    ELSE IF {"RIGHT_DOWN"} \subseteq ir_beacon_button_pressed
      THEN <<drive(-speed, -turn_rate)>>
    ELSE <<stop>>

\* every branch an `if` of its own instead of an `elif`: the final else
\* belongs to the last `if` alone
commands_if_chain(ir_beacon_button_pressed, speed, turn_rate) ==
    LET when(B, cmd) == IF ir_beacon_button_pressed = B THEN <<cmd>> ELSE <<>>
    IN  when({"LEFT_UP", "RIGHT_UP"}, drive(speed, 0))
        \o when({"LEFT_DOWN", "RIGHT_DOWN"}, drive(-speed, 0))
        \o when({"LEFT_UP", "RIGHT_DOWN"}, drive(0, -turn_rate))
        \o when({"RIGHT_UP", "LEFT_DOWN"}, drive(0, turn_rate))
        \o when({"LEFT_UP"}, drive(speed, -turn_rate))
        \o when({"RIGHT_UP"}, drive(speed, turn_rate))
        \o when({"LEFT_DOWN"}, drive(-speed, turn_rate))
        \o (IF ir_beacon_button_pressed = {"RIGHT_DOWN"}
              THEN <<drive(-speed, -turn_rate)>> ELSE <<stop>>)

\* the turns on the spot with the sign opposite to the source's
commands_spot_flipped(ir_beacon_button_pressed, speed, turn_rate) ==
    IF ir_beacon_button_pressed = {"LEFT_UP", "RIGHT_UP"}
      THEN <<drive(speed, 0)>>
    ELSE IF ir_beacon_button_pressed = {"LEFT_DOWN", "RIGHT_DOWN"}
      THEN <<drive(-speed, 0)>>
    ELSE IF ir_beacon_button_pressed = {"LEFT_UP", "RIGHT_DOWN"}
      THEN <<drive(0, turn_rate)>>
    ELSE IF ir_beacon_button_pressed = {"RIGHT_UP", "LEFT_DOWN"}
      THEN <<drive(0, -turn_rate)>>
    ELSE IF ir_beacon_button_pressed = {"LEFT_UP"}
      THEN <<drive(speed, -turn_rate)>>
    ELSE IF ir_beacon_button_pressed = {"RIGHT_UP"}
      THEN <<drive(speed, turn_rate)>>
    ELSE IF ir_beacon_button_pressed = {"LEFT_DOWN"}
      THEN <<drive(-speed, turn_rate)>>
    ELSE IF ir_beacon_button_pressed = {"RIGHT_DOWN"}
      THEN <<drive(-speed, -turn_rate)>>
    ELSE <<stop>>

\* forward keeps the turn rate instead of driving straight
commands_forward_turns(ir_beacon_button_pressed, speed, turn_rate) ==
    IF ir_beacon_button_pressed = {"LEFT_UP", "RIGHT_UP"}
      THEN <<drive(speed, turn_rate)>>
    ELSE IF ir_beacon_button_pressed = {"LEFT_DOWN", "RIGHT_DOWN"}
      THEN <<drive(-speed, 0)>>
    ELSE IF ir_beacon_button_pressed = {"LEFT_UP", "RIGHT_DOWN"}
      THEN <<drive(0, -turn_rate)>>
    ELSE IF ir_beacon_button_pressed = {"RIGHT_UP", "LEFT_DOWN"}
      THEN <<drive(0, turn_rate)>>
    ELSE IF ir_beacon_button_pressed = {"LEFT_UP"}
      THEN <<drive(speed, -turn_rate)>>
    ELSE IF ir_beacon_button_pressed = {"RIGHT_UP"}
      THEN <<drive(speed, turn_rate)>>
    ELSE IF ir_beacon_button_pressed = {"LEFT_DOWN"}
      THEN <<drive(-speed, turn_rate)>>
    ELSE IF ir_beacon_button_pressed = {"RIGHT_DOWN"}
      THEN <<drive(-speed, -turn_rate)>>
    ELSE <<stop>>

\* the commands IRBeaconDriverMixin.drive_by_ir_beacon sends to self.driver
IRBeaconDriverMixin_commands(ir_beacon_button_pressed, speed, turn_rate) ==
    IF ir_beacon_button_pressed = {"LEFT_UP", "RIGHT_UP"}
      THEN <<drive(speed, 0)>>
    ELSE IF ir_beacon_button_pressed = {"LEFT_DOWN", "RIGHT_DOWN"}
      THEN <<drive(-speed, 0)>>
    ELSE IF ir_beacon_button_pressed = {"LEFT_UP", "RIGHT_DOWN"}
      THEN <<drive(0, -turn_rate)>>
    ELSE IF ir_beacon_button_pressed = {"RIGHT_UP", "LEFT_DOWN"}
      THEN <<drive(0, turn_rate)>>
    ELSE IF ir_beacon_button_pressed = {"LEFT_UP"}
      THEN <<drive(speed, -turn_rate)>>
    ELSE IF ir_beacon_button_pressed = {"RIGHT_UP"}
      THEN <<drive(speed, turn_rate)>>
    ELSE IF ir_beacon_button_pressed = {"LEFT_DOWN"}
      THEN <<drive(-speed, turn_rate)>>
    ELSE IF ir_beacon_button_pressed = {"RIGHT_DOWN"}
      THEN <<drive(-speed, -turn_rate)>>
    ELSE <<stop>>

\* a call that sends nothing when the DriveBase already runs the command
\* (or, never driven, gets its first stop)
drive_by_ir_beacon_skip_repeat(obj, buttons, speed, turn_rate) ==
    LET ir_beacon_button_pressed == set(buttons)
        cmds == IRBeaconDriverMixin_commands(ir_beacon_button_pressed, speed, turn_rate)
        sent == IF cmds = <<obj.driver.command>> THEN <<>> ELSE cmds
    IN  [self    |-> [obj EXCEPT !.driver = DriveBase_after(obj.driver, sent)],
         reads   |-> <<obj.ir_beacon_channel>>,
         pressed |-> ir_beacon_button_pressed,
         speed   |-> speed,
         turn_rate |-> turn_rate,
         driver  |-> sent]

\* one call of IRBeaconDriverMixin.drive_by_ir_beacon: buttons is the list
\* the sensor returns for the channel asked
IRBeaconDriverMixin_drive_by_ir_beacon(obj, buttons, speed, turn_rate) ==
    LET ir_beacon_button_pressed == set(buttons)
        cmds == IRBeaconDriverMixin_commands(ir_beacon_button_pressed, speed, turn_rate)
    IN  [self    |-> [obj EXCEPT !.driver = DriveBase_after(obj.driver, cmds)],
         reads   |-> <<obj.ir_beacon_channel>>,
         pressed |-> ir_beacon_button_pressed,
         speed   |-> speed,
         turn_rate |-> turn_rate,
         driver  |-> cmds]

\* the commands RemoteControlledTank.drive_by_ir_beacon sends to self.driver
RemoteControlledTank_commands(ir_beacon_button_pressed, speed, turn_rate) ==
    IF ir_beacon_button_pressed = {"LEFT_UP", "RIGHT_UP"}
      THEN <<drive(speed, 0)>>
    ELSE IF ir_beacon_button_pressed = {"LEFT_DOWN", "RIGHT_DOWN"}
      THEN <<drive(-speed, 0)>>
    ELSE IF ir_beacon_button_pressed = {"LEFT_UP", "RIGHT_DOWN"}
      THEN <<drive(0, -turn_rate)>>
    ELSE IF ir_beacon_button_pressed = {"RIGHT_UP", "LEFT_DOWN"}
      THEN <<drive(0, turn_rate)>>
    ELSE IF ir_beacon_button_pressed = {"LEFT_UP"}
      THEN <<drive(speed, -turn_rate)>>
    ELSE IF ir_beacon_button_pressed = {"RIGHT_UP"}
      THEN <<drive(speed, turn_rate)>>
    ELSE IF ir_beacon_button_pressed = {"LEFT_DOWN"}
      THEN <<drive(-speed, turn_rate)>>
    ELSE IF ir_beacon_button_pressed = {"RIGHT_DOWN"}
      THEN <<drive(-speed, -turn_rate)>>
    ELSE <<stop>>

\* one call of RemoteControlledTank.drive_by_ir_beacon
RemoteControlledTank_drive_by_ir_beacon(obj, buttons, speed, turn_rate) ==
    LET ir_beacon_button_pressed == set(buttons)
        cmds == RemoteControlledTank_commands(ir_beacon_button_pressed, speed, turn_rate)
    IN  [self    |-> [obj EXCEPT !.driver = DriveBase_after(obj.driver, cmds)],
         reads   |-> <<obj.ir_beacon_channel>>,
         pressed |-> ir_beacon_button_pressed,
         speed   |-> speed,
         turn_rate |-> turn_rate,
         driver  |-> cmds]

\* method resolution: the drive_by_ir_beacon an object of class cls runs
drive_by_ir_beacon(obj, buttons, speed, turn_rate) ==
    IF obj.cls = "Ev3rstorm"
      THEN IRBeaconDriverMixin_drive_by_ir_beacon(obj, buttons, speed, turn_rate)
      ELSE RemoteControlledTank_drive_by_ir_beacon(obj, buttons, speed, turn_rate)

---------------------------------------------------------------------------
(* Ev3rstorm.blast_bazooka_if_touched *)

Ambients == (AMBIENT_THRESHOLD - 1)..(AMBIENT_THRESHOLD + 1)

run_angle(speed, rotation_angle, then, wait) ==
    [speed |-> speed, rotation_angle |-> rotation_angle, then |-> then, wait |-> wait]

\* the Motor has turned by the angle of every run_angle it was given
Motor_after(angle, runs) ==
    IF runs = <<>> THEN angle ELSE angle + runs[Len(runs)].rotation_angle

\* the ambient light compared with <= instead of <
blast_bazooka_le_threshold(obj, pressed, ambient) ==
    LET dark   == ambient <= AMBIENT_THRESHOLD
        sounds == IF pressed
                    THEN IF dark THEN <<"UP", "LAUGHING_1">>
                                 ELSE <<"DOWN", "LAUGHING_2">>
                    ELSE <<>>
        runs   == IF pressed
                    THEN IF dark
                           THEN <<run_angle(2 * MEDIUM_MOTOR_ROTATIONAL_DEGREES_PER_BLAST,
                                            -MEDIUM_MOTOR_ROTATIONAL_DEGREES_PER_BLAST,
                                            "HOLD", TRUE)>>
                           ELSE <<run_angle(2 * MEDIUM_MOTOR_ROTATIONAL_DEGREES_PER_BLAST,
                                            MEDIUM_MOTOR_ROTATIONAL_DEGREES_PER_BLAST,
                                            "HOLD", TRUE)>>
                    ELSE <<>>
    IN  [self    |-> [obj EXCEPT !.bazooka_blast_motor = Motor_after(@, runs)],
         pressed |-> pressed,
         ambient |-> ambient,
         sounds  |-> sounds,
         runs    |-> runs,
         driver  |-> <<>>,
         done    |-> TRUE]

\* one whole call of Ev3rstorm.blast_bazooka_if_touched, with what the touch
\* sensor and the colour sensor report in it
blast_bazooka_if_touched(obj, pressed, ambient) ==
    LET sounds == IF pressed
                    THEN IF ambient < AMBIENT_THRESHOLD
                           THEN <<"UP", "LAUGHING_1">>
                           ELSE <<"DOWN", "LAUGHING_2">>
                    ELSE <<>>
        runs   == IF pressed
                    THEN IF ambient < AMBIENT_THRESHOLD
                           THEN <<run_angle(2 * MEDIUM_MOTOR_ROTATIONAL_DEGREES_PER_BLAST,
                                            -MEDIUM_MOTOR_ROTATIONAL_DEGREES_PER_BLAST,
                                            "HOLD", TRUE)>>
                           ELSE <<run_angle(2 * MEDIUM_MOTOR_ROTATIONAL_DEGREES_PER_BLAST,
                                            MEDIUM_MOTOR_ROTATIONAL_DEGREES_PER_BLAST,
                                            "HOLD", TRUE)>>
                    ELSE <<>>
    IN  [self    |-> [obj EXCEPT !.bazooka_blast_motor = Motor_after(@, runs)],
         pressed |-> pressed,
         ambient |-> ambient,
         \* the order of the calls: sounds[1], runs[1], sounds[2]
         sounds  |-> sounds,
         runs    |-> runs,
         driver  |-> <<>>,
         done    |-> TRUE]

\* the motor angle the model lets the bazooka reach
AngleInBounds(angle) ==
    /\ angle <= MaxBlasts * MEDIUM_MOTOR_ROTATIONAL_DEGREES_PER_BLAST
    /\ -angle <= MaxBlasts * MEDIUM_MOTOR_ROTATIONAL_DEGREES_PER_BLAST

---------------------------------------------------------------------------
(* Construction *)

MotorPorts == {"A", "B", "C", "D"}
SensorPorts == {"S1", "S2", "S3", "S4"}

Unconstructed == [cls |-> "none"]
NoCall == [reads |-> <<>>, pressed |-> {}, speed |-> 0, turn_rate |-> 0,
           driver |-> <<>>, n |-> 0]
NoBlast == [pressed |-> FALSE, ambient |-> 0, sounds |-> <<>>, runs |-> <<>>,
            driver |-> <<>>, done |-> TRUE, n |-> 0]

\* the parameters of IRBeaconDriverMixin.__init__ and of
\* RemoteControlledTank.__init__ (the same), and their defaults
init_params == <<"self", "wheel_diameter", "axle_track", "left_motor_port",
                 "right_motor_port", "ir_sensor_port", "ir_beacon_channel">>
init_defaults == [left_motor_port |-> "B", right_motor_port |-> "C",
                  ir_sensor_port |-> "S4",
                  ir_beacon_channel |-> DEFAULT_IR_BEACON_CHANNEL]

\* Python's binding of the arguments of a call to the parameters of the
\* function: positional arguments fill the parameters from the left, keyword
\* arguments by name; TypeError when a parameter gets two values, a keyword
\* names no parameter, or a parameter without default gets none
BindArguments(params, defaults, positional, keywords) ==
    LET names    == Range(params)
        npos     == Len(positional)
        posNames == {params[i] : i \in {j \in DOMAIN params : j <= npos}}
        kwNames  == DOMAIN keywords
        index(p) == CHOOSE i \in DOMAIN params : params[i] = p
    IN  IF \/ npos > Len(params)
           \/ kwNames \cap posNames # {}
           \/ ~(kwNames \subseteq names)
           \/ \E p \in names : p \notin (posNames \cup kwNames \cup DOMAIN defaults)
          THEN [error |-> "TypeError"]
          ELSE [error |-> "none",
                bound |-> [p \in names |->
                             IF p \in posNames THEN positional[index(p)]
                             ELSE IF p \in kwNames THEN keywords[p]
                             ELSE defaults[p]]]

\* the body of IRBeaconDriverMixin.__init__ / RemoteControlledTank.__init__
\* on the object obj, with its parameters bound as b
mixin_init(obj, b) ==
    [cls |-> obj.cls,
     driver |-> [left_motor |-> b.left_motor_port,
                 right_motor |-> b.right_motor_port,
                 wheel_diameter |-> b.wheel_diameter,
                 axle_track |-> b.axle_track,
                 command |-> NoCommand],
     ir_sensor |-> b.ir_sensor_port,
     ir_beacon_channel |-> b.ir_beacon_channel,
     bazooka_blast_motor |-> 0]

\* Ev3rstorm.__init__: calls IRBeaconDriverMixin.__init__(self, keywords...)
Ev3rstorm_init(a) ==
    LET obj  == [cls |-> "Ev3rstorm"]
        bind == BindArguments(init_params, init_defaults,
                    <<obj>>,
                    [wheel_diameter |-> WHEEL_DIAMETER, axle_track |-> AXLE_TRACK,
                     left_motor_port |-> a.left_motor_port,
                     right_motor_port |-> a.right_motor_port,
                     ir_sensor_port |-> a.ir_sensor_port,
                     ir_beacon_channel |-> a.ir_beacon_channel])
    IN  IF bind.error # "none"
          THEN [error |-> bind.error, self |-> Unconstructed]
          ELSE [error |-> "none", self |-> mixin_init(obj, bind.bound)]

\* Gripp3r.__init__: calls super().__init__(self, keywords...); super().__init__
\* is RemoteControlledTank.__init__ already bound to the object
Gripp3r_init(a) ==
    LET obj  == [cls |-> "Gripp3r"]
        bind == BindArguments(init_params, init_defaults,
                    <<obj, obj>>,
                    [wheel_diameter |-> WHEEL_DIAMETER, axle_track |-> AXLE_TRACK,
                     left_motor_port |-> a.left_motor_port,
                     right_motor_port |-> a.right_motor_port,
                     ir_sensor_port |-> a.ir_sensor_port,
                     ir_beacon_channel |-> a.ir_beacon_channel])
    IN  IF bind.error # "none"
          THEN [error |-> bind.error, self |-> Unconstructed]
          ELSE [error |-> "none", self |-> mixin_init(obj, bind.bound)]

\* RemoteControlledTank(wheel_diameter=..., axle_track=..., ...): the class
\* of gripp3r/main.py constructed on its own
RemoteControlledTank_init(a) ==
    LET obj  == [cls |-> "RemoteControlledTank"]
        bind == BindArguments(init_params, init_defaults,
                    <<obj>>,
                    [wheel_diameter |-> WHEEL_DIAMETER, axle_track |-> AXLE_TRACK,
                     left_motor_port |-> a.left_motor_port,
                     right_motor_port |-> a.right_motor_port,
                     ir_sensor_port |-> a.ir_sensor_port,
                     ir_beacon_channel |-> a.ir_beacon_channel])
    IN  IF bind.error # "none"
          THEN [error |-> bind.error, self |-> Unconstructed]
          ELSE [error |-> "none", self |-> mixin_init(obj, bind.bound)]

\* the arguments a caller passes: the constructor's and drive_by_ir_beacon's
DefaultArgs == [left_motor_port |-> "B", right_motor_port |-> "C",
                ir_sensor_port |-> "S4",
                ir_beacon_channel |-> DEFAULT_IR_BEACON_CHANNEL,
                speed |-> DEFAULT_SPEED, turn_rate |-> DEFAULT_TURN_RATE]

---------------------------------------------------------------------------
(* The classes driven call by call *)

Construct(cls, a) ==
    IF cls = "Ev3rstorm" THEN Ev3rstorm_init(a).self
                         ELSE RemoteControlledTank_init(a).self

\* the record kept of a call of drive_by_ir_beacon (n: a call was made)
CallRecord(res) ==
    [reads |-> res.reads, pressed |-> res.pressed,
     speed |-> res.speed, turn_rate |-> res.turn_rate,
     driver |-> res.driver, n |-> 1]

\* the record kept of a call of blast_bazooka_if_touched
BlastRecord(res) ==
    [pressed |-> res.pressed, ambient |-> res.ambient,
     sounds |-> res.sounds, runs |-> res.runs,
     driver |-> res.driver, done |-> res.done, n |-> 1]

\* robot r calls drive_by_ir_beacon(speed, turn_rate) while the sensor
\* reports one of the lists
DriveStep(r, lists) ==
    /\ self[r].cls # "none"
    /\ \E buttons \in lists :
         LET res == drive_by_ir_beacon(self[r], buttons, args[r].speed, args[r].turn_rate)
         IN  /\ self' = [self EXCEPT ![r] = res.self]
             /\ call' = [call EXCEPT ![r] = CallRecord(res)]
    /\ UNCHANGED <<args, blast, pc, screen, log>>

\* robot r, an Ev3rstorm, calls blast_bazooka_if_touched with the touch
\* sensor pressed; the call returns
BlastStep(r) ==
    /\ self[r].cls = "Ev3rstorm"
    /\ \E ambient \in Ambients :
         LET res == blast_bazooka_if_touched(self[r], TRUE, ambient)
         IN  /\ AngleInBounds(res.self.bazooka_blast_motor)
             /\ self' = [self EXCEPT ![r] = res.self]
             /\ blast' = [blast EXCEPT ![r] = BlastRecord(res)]
    /\ UNCHANGED <<args, call, pc, screen, log>>

\* One object of either class, every profile, every list of buttons
Init ==
    /\ \E cls \in {"Ev3rstorm", "RemoteControlledTank"},
          ch \in Channels, s \in Speeds, t \in TurnRates :
         LET a == [DefaultArgs EXCEPT !.ir_beacon_channel = ch,
                                      !.speed = s, !.turn_rate = t]
         IN  /\ args = [r \in Robots |-> a]
             /\ self = [r \in Robots |-> IF r = "a" THEN Construct(cls, a)
                                                    ELSE Unconstructed]
    /\ call = [r \in Robots |-> NoCall]
    /\ blast = [r \in Robots |-> NoBlast]
    /\ pc = "calls"
    /\ screen = <<>>
    /\ log = <<>>

Next == DriveStep("a", AllLists)

Spec == Init /\ [][Next]_vars

\* Two objects of the same class and profile, each with its own history of
\* drive steps and blasts
InitPair ==
    /\ \E cls \in {"Ev3rstorm", "RemoteControlledTank"},
          s \in {DEFAULT_SPEED, GRIPP3R_SPEED} :
         LET a == [DefaultArgs EXCEPT !.speed = s]
         IN  /\ args = [r \in Robots |-> a]
             /\ self = [r \in Robots |-> Construct(cls, a)]
    /\ call = [r \in Robots |-> NoCall]
    /\ blast = [r \in Robots |-> NoBlast]
    /\ pc = "calls"
    /\ screen = <<>>
    /\ log = <<>>

NextPair ==
    \E r \in Robots :
        \/ DriveStep(r, ShortLists)
        \/ BlastStep(r)

SpecPair == InitPair /\ [][NextPair]_vars

---------------------------------------------------------------------------
(* The mapping from buttons to commands *)

\* the eight button sets of the table, and the command of each
ListedSets ==
    {{"LEFT_UP", "RIGHT_UP"}, {"LEFT_DOWN", "RIGHT_DOWN"},
     {"LEFT_UP", "RIGHT_DOWN"}, {"RIGHT_UP", "LEFT_DOWN"},
     {"LEFT_UP"}, {"RIGHT_UP"}, {"LEFT_DOWN"}, {"RIGHT_DOWN"}}

TableCommand(B, speed, turn_rate) ==
    CASE B = {"LEFT_UP", "RIGHT_UP"}     -> drive(speed, 0)
      [] B = {"LEFT_DOWN", "RIGHT_DOWN"} -> drive(0 - speed, 0)
      [] B = {"LEFT_UP", "RIGHT_DOWN"}   -> drive(0, 0 - turn_rate)
      [] B = {"RIGHT_UP", "LEFT_DOWN"}   -> drive(0, turn_rate)
      [] B = {"LEFT_UP"}                 -> drive(speed, 0 - turn_rate)
      [] B = {"RIGHT_UP"}                -> drive(speed, turn_rate)
      [] B = {"LEFT_DOWN"}               -> drive(0 - speed, turn_rate)
      [] B = {"RIGHT_DOWN"}              -> drive(0 - speed, 0 - turn_rate)

Called(r) == call[r].n > 0

\* C1: for every profile and each of the eight listed button sets, a call of
\* drive_by_ir_beacon sends drive() with exactly the pair of the table; so
\* (100, 90) with {LEFT_UP, RIGHT_UP} gives (100, 0) and (300, 90) with
\* {RIGHT_DOWN} gives (-300, -90).
C1_TableCommands ==
    \A r \in Robots :
        /\ (Called(r) /\ call[r].pressed \in ListedSets)
              => call[r].driver =
                   <<TableCommand(call[r].pressed, call[r].speed, call[r].turn_rate)>>
        /\ (/\ Called(r) /\ call[r].speed = 100 /\ call[r].turn_rate = 90
            /\ call[r].pressed = {"LEFT_UP", "RIGHT_UP"})
              => call[r].driver = <<drive(100, 0)>>
        /\ (/\ Called(r) /\ call[r].speed = 300 /\ call[r].turn_rate = 90
            /\ call[r].pressed = {"RIGHT_DOWN"})
              => call[r].driver = <<drive(-300, -90)>>

C1_Witness ==
    /\ Called("a") /\ call["a"].speed = 300 /\ call["a"].turn_rate = 90
    /\ call["a"].pressed = {"RIGHT_DOWN"}
    /\ call["a"].driver = <<drive(-300, -90)>>
    /\ self["a"].driver.command = drive(-300, -90)

\* C2: for the empty set and every button set that is not one of the eight
\* listed (same-side pairs, three or four buttons, a set with BEACON), a call
\* of drive_by_ir_beacon sends stop() and no drive(); the call always ends
\* with a command sent, never otherwise.
C2_OtherwiseStop ==
    \A r \in Robots :
        (Called(r) /\ call[r].pressed \notin ListedSets)
            => /\ call[r].driver = <<stop>>
               /\ self[r].driver.command = stop

C2_Witness ==
    /\ Called("a")
    /\ call["a"].pressed = {"LEFT_UP", "LEFT_DOWN", "RIGHT_UP"}
    /\ call["a"].driver = <<stop>>

\* C3: every call of drive_by_ir_beacon reads the beacon buttons exactly once
\* (on the object's channel) and sends exactly one command to the drive
\* base, a drive() or a stop(), whatever the buttons are.
C3_OneReadOneCommand ==
    \A r \in Robots :
        Called(r)
            => /\ call[r].reads = <<self[r].ir_beacon_channel>>
               /\ Len(call[r].driver) = 1
               /\ call[r].driver[1].op \in {"drive", "stop"}

C3_Witness ==
    /\ Called("a")
    /\ call["a"].pressed = {"LEFT_UP", "RIGHT_UP"}
    /\ Len(call["a"].reads) = 1
    /\ Len(call["a"].driver) = 1

\* C5: the two programs implement the same mapping: for every button set and
\* every profile the call of either class sends what the method of the other
\* class sends for the same buttons and profile.
C5_SameMapping ==
    \A r \in Robots :
        Called(r)
            => call[r].driver =
                 IF self[r].cls = "Ev3rstorm"
                   THEN RemoteControlledTank_commands(
                            call[r].pressed, call[r].speed, call[r].turn_rate)
                   ELSE IRBeaconDriverMixin_commands(
                            call[r].pressed, call[r].speed, call[r].turn_rate)

C5_Witness ==
    /\ Called("a") /\ self["a"].cls = "RemoteControlledTank"
    /\ call["a"].pressed = {"RIGHT_UP", "LEFT_DOWN"}
    /\ call["a"].turn_rate > 0
    /\ call["a"].driver[1].op = "drive"

Sign(x) == IF x > 0 THEN 1 ELSE IF x < 0 THEN -1 ELSE 0

\* the command the class of robot r sends for the buttons B held alone, with
\* the profile of the robot's latest call
Alone(r, B) ==
    LET cmds == IF self[r].cls = "Ev3rstorm"
                  THEN IRBeaconDriverMixin_commands(B, call[r].speed, call[r].turn_rate)
                  ELSE RemoteControlledTank_commands(B, call[r].speed, call[r].turn_rate)
    IN  cmds[Len(cmds)]

\* a call that turned on the spot with a positive turn rate
TurnedOnSpot(r) ==
    /\ Called(r) /\ call[r].turn_rate > 0 /\ Len(call[r].driver) > 0
    /\ call[r].pressed \in {{"LEFT_UP", "RIGHT_DOWN"}, {"RIGHT_UP", "LEFT_DOWN"}}

\* the up button of a button set that turns on the spot
UpButtonOf(B) == B \cap {"LEFT_UP", "RIGHT_UP"}

\* C7 as stated: for turn_rate > 0 the turn sent for {LEFT_UP, RIGHT_DOWN}
\* has the sign opposite to the turn sent for {LEFT_UP} alone, and the turn
\* sent for {RIGHT_UP, LEFT_DOWN} the sign opposite to {RIGHT_UP} alone.
C7_SpotSignOpposite ==
    \A r \in Robots :
        TurnedOnSpot(r)
            => Sign(call[r].driver[1].turn_rate)
                 = 0 - Sign(Alone(r, UpButtonOf(call[r].pressed)).turn_rate)

\* C7 amended: for turn_rate > 0 the turn sent for {LEFT_UP, RIGHT_DOWN} has
\* the same sign as the turn sent for {LEFT_UP} alone (both negative), and
\* the turn sent for {RIGHT_UP, LEFT_DOWN} the same sign as the turn sent for
\* {RIGHT_UP} alone (both positive).
C7_SpotSignSame ==
    \A r \in Robots :
        TurnedOnSpot(r)
            => /\ Sign(call[r].driver[1].turn_rate)
                    = Sign(Alone(r, UpButtonOf(call[r].pressed)).turn_rate)
               /\ Sign(call[r].driver[1].turn_rate)
                    = IF "LEFT_UP" \in call[r].pressed THEN -1 ELSE 1

C7_Witness ==
    /\ TurnedOnSpot("a")
    /\ call["a"].pressed = {"LEFT_UP", "RIGHT_DOWN"}
    /\ call["a"].driver[1].turn_rate < 0
    /\ Alone("a", {"LEFT_UP"}).turn_rate < 0

\* the four listed sets of two buttons
ListedPairs ==
    {{"LEFT_UP", "RIGHT_UP"}, {"LEFT_DOWN", "RIGHT_DOWN"},
     {"LEFT_UP", "RIGHT_DOWN"}, {"RIGHT_UP", "LEFT_DOWN"}}

\* C10: each of the four listed two-button commands is the component-wise
\* average of the commands of its two buttons held alone: twice the pair sent
\* for {a, b} is the sum of the pairs sent for {a} and for {b}; so a turn on
\* the spot has the turn sign of each of its two single-button commands.
C10_PairIsAverage ==
    \A r \in Robots :
        (Called(r) /\ call[r].pressed \in ListedPairs)
            => \E a, b \in call[r].pressed :
                 /\ a # b
                 /\ Len(call[r].driver) = 1
                 /\ call[r].driver[1].op = "drive"
                 /\ Alone(r, {a}).op = "drive" /\ Alone(r, {b}).op = "drive"
                 /\ 2 * call[r].driver[1].speed
                      = Alone(r, {a}).speed + Alone(r, {b}).speed
                 /\ 2 * call[r].driver[1].turn_rate
                      = Alone(r, {a}).turn_rate + Alone(r, {b}).turn_rate
                 /\ call[r].pressed \in {{"LEFT_UP", "RIGHT_DOWN"}, {"RIGHT_UP", "LEFT_DOWN"}}
                      => /\ Sign(call[r].driver[1].turn_rate)
                              = Sign(Alone(r, {a}).turn_rate)
                         /\ Sign(call[r].driver[1].turn_rate)
                              = Sign(Alone(r, {b}).turn_rate)

C10_Witness ==
    /\ Called("a") /\ call["a"].pressed = {"LEFT_DOWN", "RIGHT_DOWN"}
    /\ call["a"].speed = 100 /\ call["a"].turn_rate = 90
    /\ call["a"].driver = <<drive(-100, 0)>>
    /\ Alone("a", {"LEFT_DOWN"}) = drive(-100, 90)
    /\ Alone("a", {"RIGHT_DOWN"}) = drive(-100, -90)

\* C4: the command a call sends depends only on the buttons read in the call
\* and on its (speed, turn_rate): two objects with histories of their own
\* whose latest calls read the same buttons with the same profile sent the
\* same command; and no step changes ir_beacon_channel or the profile.
C4_HistoryIndependent ==
    /\ [](\A r1, r2 \in Robots :
            (/\ Called(r1) /\ Called(r2)
             /\ call[r1].pressed = call[r2].pressed
             /\ call[r1].speed = call[r2].speed
             /\ call[r1].turn_rate = call[r2].turn_rate)
                => call[r1].driver = call[r2].driver)
    /\ [][/\ args' = args
          /\ \A r \in Robots :
                self'[r].ir_beacon_channel = self[r].ir_beacon_channel]_vars

C4_Witness ==
    /\ Called("a") /\ Called("b")
    /\ call["a"].pressed = {"LEFT_UP"} /\ call["b"].pressed = {"LEFT_UP"}
    /\ call["a"].speed = call["b"].speed
    /\ call["a"].driver = call["b"].driver
    /\ call["a"].driver[1].op = "drive"
    /\ self["a"].cls = "Ev3rstorm"
    /\ self["a"].bazooka_blast_motor # self["b"].bazooka_blast_motor
    /\ blast["a"].n > 0 /\ blast["b"].n = 0

---------------------------------------------------------------------------
(* The Ev3rstorm program: EV3RSTORM = Ev3rstorm(); EV3RSTORM.main() *)

\* log keeps the latest MaxLog steps of main
Push(l, e) == IF Len(l) < MaxLog THEN Append(l, e) ELSE Append(Tail(l), e)

\* EV3RSTORM = Ev3rstorm()
Ev3rstorm_start ==
    /\ pc = "start"
    /\ LET res == Ev3rstorm_init(args["a"])
       IN  IF res.error = "none"
             THEN /\ self' = [self EXCEPT !["a"] = res.self]
                  /\ pc' = "main"
             ELSE /\ pc' = res.error
                  /\ UNCHANGED self
    /\ UNCHANGED <<args, call, blast, screen, log>>

\* main: self.screen.load_image(ImageFile.TARGET), then into the loop
Ev3rstorm_main_load_image ==
    /\ pc = "main"
    /\ screen' = Append(screen, "TARGET")
    /\ log' = Push(log, "load_image")
    /\ pc' = "drive"
    /\ UNCHANGED <<self, args, call, blast>>

\* the drive step with the blast left out of the loop
Ev3rstorm_main_drive_only ==
    /\ pc = "drive"
    /\ \E buttons \in AllLists :
         LET res == drive_by_ir_beacon(self["a"], buttons,
                                       DEFAULT_SPEED, DEFAULT_TURN_RATE)
         IN  /\ self' = [self EXCEPT !["a"] = res.self]
             /\ call' = [call EXCEPT !["a"] = CallRecord(res)]
    /\ log' = Push(log, "drive")
    /\ pc' = "drive"
    /\ UNCHANGED <<args, blast, screen>>

\* the loop: self.drive_by_ir_beacon(), with the defaults of its parameters
Ev3rstorm_main_drive ==
    /\ pc = "drive"
    /\ \E buttons \in AllLists :
         LET res == drive_by_ir_beacon(self["a"], buttons,
                                       DEFAULT_SPEED, DEFAULT_TURN_RATE)
         IN  /\ self' = [self EXCEPT !["a"] = res.self]
             /\ call' = [call EXCEPT !["a"] = CallRecord(res)]
    /\ log' = Push(log, "drive")
    /\ pc' = "blast"
    /\ UNCHANGED <<args, blast, screen>>

\* the loop: self.blast_bazooka_if_touched(), up to the point where it
\* waits for the motor (run_angle with wait=True), or to its end when the
\* touch sensor is not pressed
Ev3rstorm_main_blast ==
    /\ pc = "blast"
    /\ \E pressed \in BOOLEAN, ambient \in Ambients :
         LET res == blast_bazooka_if_touched(self["a"], pressed, ambient)
         IN  /\ AngleInBounds(res.self.bazooka_blast_motor)
             /\ IF res.runs = <<>>
                  THEN /\ blast' = [blast EXCEPT !["a"] = BlastRecord(res)]
                       /\ self' = [self EXCEPT !["a"] = res.self]
                       /\ pc' = "drive"
                  ELSE /\ blast' = [blast EXCEPT !["a"] =
                                      [BlastRecord(res) EXCEPT
                                          !.sounds = <<res.sounds[1]>>,
                                          !.done = FALSE]]
                       /\ UNCHANGED self
                       /\ pc' = "run_angle"
    /\ log' = Push(log, "blast")
    /\ UNCHANGED <<args, call, screen>>

\* the motor has turned by the angle: run_angle returns, the laugh is played
\* and blast_bazooka_if_touched returns
Ev3rstorm_run_angle_returns ==
    /\ pc = "run_angle"
    /\ LET res == blast_bazooka_if_touched(self["a"], blast["a"].pressed,
                                           blast["a"].ambient)
       IN  /\ blast' = [blast EXCEPT !["a"] = BlastRecord(res)]
           /\ self' = [self EXCEPT !["a"] = res.self]
    /\ pc' = "drive"
    /\ UNCHANGED <<args, call, screen, log>>

InitEv3rstorm ==
    /\ args = [r \in Robots |-> DefaultArgs]
    /\ self = [r \in Robots |-> Unconstructed]
    /\ call = [r \in Robots |-> NoCall]
    /\ blast = [r \in Robots |-> NoBlast]
    /\ pc = "start"
    /\ screen = <<>>
    /\ log = <<>>

NextEv3rstorm ==
    \/ Ev3rstorm_start
    \/ Ev3rstorm_main_load_image
    \/ Ev3rstorm_main_drive
    \/ Ev3rstorm_main_blast
    \/ Ev3rstorm_run_angle_returns

\* the one thread of the program keeps running, and a motor that was told to
\* turn by an angle gets there
SpecEv3rstorm ==
    InitEv3rstorm /\ [][NextEv3rstorm]_vars /\ WF_vars(NextEv3rstorm)

---------------------------------------------------------------------------
(* The Gripp3r program: GRIPP3R = Gripp3r(); GRIPP3R.main() *)

\* GRIPP3R = Gripp3r(...)
Gripp3r_start ==
    /\ pc = "start"
    /\ LET res == Gripp3r_init(args["a"])
       IN  IF res.error = "none"
             THEN /\ self' = [self EXCEPT !["a"] = res.self]
                  /\ pc' = "main"
             ELSE /\ pc' = res.error
                  /\ UNCHANGED self
    /\ UNCHANGED <<args, call, blast, screen, log>>

\* main: while True: self.drive_by_ir_beacon(speed=300)
Gripp3r_main ==
    /\ pc = "main"
    /\ \E buttons \in AllLists :
         LET res == drive_by_ir_beacon(self["a"], buttons,
                                       GRIPP3R_SPEED, DEFAULT_TURN_RATE)
         IN  /\ self' = [self EXCEPT !["a"] = res.self]
             /\ call' = [call EXCEPT !["a"] = CallRecord(res)]
    /\ log' = Push(log, "drive")
    /\ UNCHANGED <<args, blast, pc, screen>>

\* the script: the constructor, then main() on the object it returned
Gripp3r_program ==
    IF pc = "start" THEN Gripp3r_start ELSE Gripp3r_main

\* the Gripp3r may be constructed on any two motor ports, any sensor port
\* and any channel
InitGripp3r ==
    /\ \E left \in MotorPorts, right \in MotorPorts,
          port \in SensorPorts, ch \in Channels :
         /\ left # right
         /\ args = [r \in Robots |->
                   [DefaultArgs EXCEPT !.left_motor_port = left,
                                       !.right_motor_port = right,
                                       !.ir_sensor_port = port,
                                       !.ir_beacon_channel = ch,
                                       !.speed = GRIPP3R_SPEED]]
    /\ self = [r \in Robots |-> Unconstructed]
    /\ call = [r \in Robots |-> NoCall]
    /\ blast = [r \in Robots |-> NoBlast]
    /\ pc = "start"
    /\ screen = <<>>
    /\ log = <<>>

NextGripp3r == Gripp3r_program

SpecGripp3r == InitGripp3r /\ [][NextGripp3r]_vars

---------------------------------------------------------------------------
(* The programs *)

\* C6: the Gripp3r program reaches its polling loop: the construction ends
\* without an error, from then on the program is in the loop that calls
\* drive_by_ir_beacon with speed 300 and turn rate 90, and every drive
\* command has its speed in {-300, 0, 300} and its turn rate in {-90, 0, 90}.
C6_Gripp3rReachesLoop ==
    /\ pc \in {"start", "main"}
    /\ Called("a")
          => /\ call["a"].speed = 300 /\ call["a"].turn_rate = 90
             /\ \A i \in DOMAIN call["a"].driver :
                   /\ call["a"].driver[i].speed \in {-300, 0, 300}
                   /\ call["a"].driver[i].turn_rate \in {-90, 0, 90}

InLoop == pc \in {"drive", "blast", "run_angle"}

\* the image is loaded before the loop and only there
ImageLoadedOnceFirst ==
    /\ pc \in {"start", "main"} => (screen = <<>> /\ ~Called("a") /\ blast["a"].n = 0)
    /\ InLoop => screen = <<"TARGET">>
    /\ Called("a") => (call["a"].speed = 100 /\ call["a"].turn_rate = 90)

\* drive steps and bazooka checks alternate, the first step is a drive step
StepsAlternate ==
    /\ \A i \in 1..(Len(log) - 1) :
          /\ log[i] \in {"load_image", "blast"} => log[i + 1] = "drive"
          /\ log[i] = "drive" => log[i + 1] = "blast"
    /\ pc = "drive" => (log # <<>> /\ log[Len(log)] \in {"load_image", "blast"})
    /\ pc \in {"blast"} => (log # <<>> /\ log[Len(log)] = "drive")
    /\ pc = "run_angle" => (log # <<>> /\ log[Len(log)] = "blast")

\* C8: in Ev3rstorm.main the target image is loaded exactly once, before the
\* first drive command; then drive steps (speed 100, turn rate 90) and
\* bazooka checks alternate strictly, starting with a drive step; no command
\* is sent to the drive base while a blast is in progress; and, every blast
\* completing, the drive step is taken infinitely often.
C8_MainLoop ==
    /\ [](ImageLoadedOnceFirst /\ StepsAlternate)
    /\ [][pc = "run_angle"
            => (call' = call /\ self'["a"].driver = self["a"].driver /\ log' = log)]_vars
    /\ []<>(pc = "blast")

C8_Witness ==
    /\ pc = "run_angle"
    /\ Len(log) = MaxLog /\ log[1] # "load_image"
    /\ screen = <<"TARGET">>
    /\ Called("a") /\ call["a"].driver[1].op = "drive"

\* C9: the outcome of a call of blast_bazooka_if_touched is fixed by the touch
\* sensor and the ambient light read in it: not pressed, no sound and no run
\* of the motor; pressed and ambient < 15: UP, the motor run by -1080 degrees
\* at 2160 deg/s (hold, wait), LAUGHING_1; pressed and ambient >= 15: DOWN,
\* the motor run by +1080 degrees at 2160 deg/s, LAUGHING_2. The motor runs
\* once per call with the sensor pressed, and no drive-base command is sent.
C9_BlastOutcome ==
    LET b == blast["a"]
    IN  b.n > 0 =>
          /\ b.driver = <<>>
          /\ ~b.pressed => (b.sounds = <<>> /\ b.runs = <<>> /\ b.done)
          /\ (b.pressed /\ b.ambient < 15) =>
                /\ b.runs = <<[speed |-> 2160, rotation_angle |-> -1080,
                               then |-> "HOLD", wait |-> TRUE]>>
                /\ b.sounds = IF b.done THEN <<"UP", "LAUGHING_1">> ELSE <<"UP">>
          /\ (b.pressed /\ b.ambient >= 15) =>
                /\ b.runs = <<[speed |-> 2160, rotation_angle |-> 1080,
                               then |-> "HOLD", wait |-> TRUE]>>
                /\ b.sounds = IF b.done THEN <<"DOWN", "LAUGHING_2">> ELSE <<"DOWN">>

C9_Witness ==
    /\ blast["a"].n > 0 /\ blast["a"].done
    /\ blast["a"].pressed /\ blast["a"].ambient = 15
    /\ blast["a"].sounds = <<"DOWN", "LAUGHING_2">>
    /\ self["a"].bazooka_blast_motor = 1080

=============================================================================
